---- MODULE Spec2Model ----
(***************************************************************************)
(* Model of src/data/update.py: the Unicode data updater.                  *)
(*                                                                         *)
(* A Python str is a sequence of one-character strings, a bytes value a    *)
(* sequence of byte values.  The call of a function that may raise yields  *)
(* a record [exc, val]: exc names the exception (NoExc when it returned)   *)
(* and val is the value returned.                                          *)
(***************************************************************************)
EXTENDS Integers, Sequences, FiniteSets, TLC

VARIABLES
    args,       \* main's argument list (sys.argv)
    pc,         \* position of the run inside main / download_file
    i,          \* 1-based index into files of the descriptor being processed
    out_dir,    \* main's local out_dir
    resp,       \* download_file's local resp: [status, content]
    data,       \* download_file's local data (decoded text)
    s,          \* download_file's local s (normalized text)
    fs,         \* the file system: path -> [exists, content]
    fs0,        \* the file system when main was called
    fs_before,  \* the file system when the current download_file was called
    requests,   \* URLs of the GETs issued so far, in order
    responses,  \* responses received so far, in order
    opened,     \* paths open() has created or truncated so far, in order
    written,    \* paths whose file.write completed
    stdout,     \* lines printed
    ret,        \* {} until main returns, then {its return value}
    exc,        \* the exception that left main, NoExc if none
    txt_in,     \* argument of a direct strip_file call
    txt_out,    \* outcome of strip_file(txt_in)
    txt_out2    \* outcome of strip_file(strip_file(txt_in))

vars == <<args, pc, i, out_dir, resp, data, s, fs, fs0, fs_before, requests,
          responses, opened, written, stdout, ret, exc, txt_in, txt_out, txt_out2>>

runVars == <<args, pc, i, out_dir, resp, data, s, fs, fs0, fs_before, requests,
             responses, opened, written, stdout, ret, exc>>

textVars == <<txt_in, txt_out, txt_out2>>

-----------------------------------------------------------------------------
(* Bounds and input alphabets *)

\* Longest text handed to strip_file directly
MaxLen == 4

\* Characters of the texts handed to strip_file: two letters, a space and
\* two line boundaries ("\r\n" counts as one boundary)
TextChars == {"a", "b", " ", "\n", "\r"}

Texts == UNION {[1..n -> TextChars] : n \in 0..MaxLen}

-----------------------------------------------------------------------------
(* Outcomes of calls *)

NoExc == "NoExc"

Unset == "unset"

Ok(v) == [exc |-> NoExc, val |-> v]

Raised(e) == [exc |-> e, val |-> <<>>]

NotCalled == [exc |-> Unset, val |-> <<>>]

-----------------------------------------------------------------------------
(* Module constants of update.py *)

url == <<"h","t","t","p","s",":","/","/","w","w","w",".","u","n","i","c","o","d","e",".","o","r","g","/","P","u","b","l","i","c","/","U","C","D","/","l","a","t","e","s","t","/","u","c","d","/">>

files == << <<"C","a","s","e","F","o","l","d","i","n","g",".","t","x","t">>,
            <<"U","n","i","c","o","d","e","D","a","t","a",".","t","x","t">>,
            <<"e","m","o","j","i","/","e","m","o","j","i","-","d","a","t","a",".","t","x","t">> >>

-----------------------------------------------------------------------------
(* str helpers of the Python runtime used by update.py *)

\* str.split(sep) for a one-character sep: the pieces between separators
RECURSIVE SplitFrom(_, _, _, _)
SplitFrom(str, sep, k, cur) ==
    IF k > Len(str) THEN <<cur>>
    ELSE IF str[k] = sep THEN <<cur>> \o SplitFrom(str, sep, k + 1, <<>>)
    ELSE SplitFrom(str, sep, k + 1, Append(cur, str[k]))

split(str, sep) == SplitFrom(str, sep, 1, <<>>)

\* The line boundaries of str.splitlines that TLA+ strings can denote
\* (the others are \v, \x1c, \x1d, \x1e, \x85, U+2028 and U+2029)
LineBoundaries == {"\n", "\r", "\f"}

\* str.splitlines(): cut at every line boundary, "\r\n" being one boundary;
\* the boundaries are not kept and a final boundary opens no further line
RECURSIVE SplitLinesFrom(_, _, _)
SplitLinesFrom(str, k, cur) ==
    IF k > Len(str) THEN (IF cur = <<>> THEN <<>> ELSE <<cur>>)
    ELSE IF str[k] \in LineBoundaries
    THEN LET skip == IF str[k] = "\r" /\ k < Len(str) /\ str[k + 1] = "\n"
                     THEN 2 ELSE 1
         IN  <<cur>> \o SplitLinesFrom(str, k + skip, <<>>)
    ELSE SplitLinesFrom(str, k + 1, Append(cur, str[k]))

splitlines(str) == SplitLinesFrom(str, 1, <<>>)

\* sep.join(parts)
RECURSIVE join(_, _)
join(sep, parts) ==
    IF parts = <<>> THEN <<>>
    ELSE IF Len(parts) = 1 THEN parts[1]
    ELSE parts[1] \o sep \o join(sep, Tail(parts))

-----------------------------------------------------------------------------
(* Pure functions of update.py *)

get_full_path(file) == url \o file

get_file_name(file) ==
    LET parts == split(file, "/") IN parts[Len(parts)]

IsNotEmptyLine(line) == Len(line) > 0

\* Variant of the filter: a line of spaces counts as blank (line.strip())
IsNotWhitespaceLine(line) == \E k \in 1..Len(line) : line[k] # " "

strip_blank_lines_ws(str) ==
    join(<<"\n">>, SelectSeq(splitlines(str), IsNotWhitespaceLine))

strip_blank_lines(str) ==
    join(<<"\n">>, SelectSeq(splitlines(str), IsNotEmptyLine))

\* s[-1] raises IndexError on the empty string
add_newline(str) ==
    IF Len(str) = 0 THEN Raised("IndexError")
    ELSE IF str[Len(str)] = "\n" THEN Ok(str)
    ELSE Ok(str \o <<"\n">>)

strip_file(str) == add_newline(strip_blank_lines(str))

-----------------------------------------------------------------------------
(* Direct calls of strip_file *)

InitText ==
    /\ txt_in \in Texts
    /\ txt_out = NotCalled
    /\ txt_out2 = NotCalled
    /\ args = <<>>
    /\ pc = "idle"
    /\ i = 0
    /\ out_dir = <<>>
    /\ resp = [status |-> 0, content |-> <<>>]
    /\ data = <<>>
    /\ s = <<>>
    /\ fs = <<>>
    /\ fs0 = <<>>
    /\ fs_before = <<>>
    /\ requests = <<>>
    /\ responses = <<>>
    /\ opened = <<>>
    /\ written = {}
    /\ stdout = <<>>
    /\ ret = {}
    /\ exc = NoExc

\* strip_file(txt_in)
StripFileCall ==
    /\ txt_out = NotCalled
    /\ txt_out' = strip_file(txt_in)
    /\ UNCHANGED <<txt_in, txt_out2, runVars>>

\* strip_file(strip_file(txt_in)): the inner call's exception leaves the
\* expression, otherwise the outer call is applied to the inner result
StripFileAgain ==
    /\ txt_out # NotCalled
    /\ txt_out2 = NotCalled
    /\ txt_out2' = IF txt_out.exc # NoExc THEN txt_out ELSE strip_file(txt_out.val)
    /\ UNCHANGED <<txt_in, txt_out, runVars>>

NextText == StripFileCall \/ StripFileAgain

SpecText == InitText /\ [][NextText]_vars

-----------------------------------------------------------------------------
(* The environment of a run: arguments, directories, HTTP responses *)

prog_name == <<"u","p","d","a","t","e",".","p","y">>

opt_h == <<"-","h">>

opt_help == <<"-","-","h","e","l","p">>

dir_out == <<"o","u","t">>

dir_missing == <<"n","o","d","i","r">>

\* The argument lists main is called with
ArgLists == { <<>>, <<prog_name>>, <<prog_name, opt_h>>, <<prog_name, opt_help>>,
              <<prog_name, dir_out>>, <<prog_name, dir_missing>> }

\* The directories that exist (the program creates none)
ExistingDirs == {dir_out}

\* A file of the output directory that is no output of the program
bystander == <<"o","u","t","/","N","O","T","E","S",".","t","x","t">>

OldContent == <<"o","l","d","\n">>

Absent == [exists |-> FALSE, content |-> <<>>]

File(text) == [exists |-> TRUE, content |-> text]

\* HTTP status codes a completed GET may carry
StatusCodes == {200, 404}

\* Response payloads: empty, "a\n\nb\n", "b\r\n \na", "a" + an invalid byte, "\n"
ResponseBodies == { <<>>, <<97,10,10,98,10>>, <<98,13,10,32,10,97>>, <<97,255>>, <<10>> }

Responses == [status : StatusCodes, content : ResponseBodies]

\* The ASCII characters of the payloads
Chr == (10 :> "\n") @@ (13 :> "\r") @@ (32 :> " ") @@ (97 :> "a") @@ (98 :> "b")

\* bytes.decode(encoding="utf-8") on ASCII bytes and the byte 0xFF, which no
\* UTF-8 sequence contains
decode(content) ==
    IF \E k \in 1..Len(content) : content[k] \notin DOMAIN Chr
    THEN Raised("UnicodeDecodeError")
    ELSE Ok([k \in 1..Len(content) |-> Chr[content[k]]])

\* os.path.join(a, b) on POSIX
os_path_join(a, b) ==
    IF Len(b) > 0 /\ b[1] = "/" THEN b
    ELSE IF Len(a) = 0 \/ a[Len(a)] = "/" THEN a \o b
    ELSE a \o <<"/">> \o b

\* The directory part of a relative path
dirname(path) ==
    LET parts == split(path, "/")
    IN  join(<<"/">>, SubSeq(parts, 1, Len(parts) - 1))

\* The paths the model's file system tracks
FsPaths == {os_path_join(d, get_file_name(files[k])) : d \in ExistingDirs, k \in 1..Len(files)}
               \cup {bystander}

-----------------------------------------------------------------------------
(* main and download_file *)

usage_text == <<"u","s","a","g","e",":"," ","u","p","d","a","t","e",".","p","y"," ","<","d","a","t","a"," ","d","i","r","e","c","t","o","r","y",">">>

\* The guard of main: Python's args[1] is the second element, and "or"
\* reads it only when len(args) < 2 is false
\* (variant: the help flags are not recognised)
IsUsageCall_NoHelp(a) == Len(a) < 2

IsUsageCall(a) == IF Len(a) < 2 THEN TRUE ELSE a[2] \in {opt_h, opt_help}

\* The statements of download_file in program order
\* (variant: the destination is opened before the GET)
StepOrder_OpenFirst == <<"open", "get", "decode", "strip", "write">>

StepOrder == <<"get", "open", "decode", "strip", "write">>

FirstStep == StepOrder[1]

\* Where control goes after a statement of download_file: the next
\* statement, or back to main's for loop after the last one
StepAfter(step) ==
    LET k == CHOOSE n \in 1..Len(StepOrder) : StepOrder[n] = step
    IN  IF k = Len(StepOrder) THEN "for" ELSE StepOrder[k + 1]

\* An exception raised in download_file: neither download_file nor main
\* handles it, so it leaves main
\* (variant: the loop catches the exception and goes on)
Raise_Swallowed(e) == pc' = "for" /\ exc' = e

Raise(e) == pc' = "raised" /\ exc' = e

\* The file download_file writes for the current descriptor
out_path == os_path_join(out_dir, get_file_name(files[i]))

Init ==
    /\ args \in ArgLists
    /\ pc = "main"
    /\ i = 0
    /\ out_dir = <<>>
    /\ resp = [status |-> 0, content |-> <<>>]
    /\ data = <<>>
    /\ s = <<>>
    /\ fs \in [FsPaths -> {Absent, File(OldContent)}]
    /\ fs[bystander] = File(OldContent)
    /\ fs0 = fs
    /\ fs_before = fs
    /\ requests = <<>>
    /\ responses = <<>>
    /\ opened = <<>>
    /\ written = {}
    /\ stdout = <<>>
    /\ ret = {}
    /\ exc = NoExc
    /\ txt_in = <<>>
    /\ txt_out = NotCalled
    /\ txt_out2 = NotCalled

\* main, lines 45-47: usage() and return 1
MainUsage ==
    /\ pc = "main"
    /\ IsUsageCall(args)
    /\ stdout' = Append(stdout, usage_text)
    /\ ret' = {1}
    /\ pc' = "returned"
    /\ UNCHANGED <<args, i, out_dir, resp, data, s, fs, fs0, fs_before, requests,
                   responses, opened, written, exc, textVars>>

\* main, line 49: out_dir = args[1], then the loop is entered
MainStart ==
    /\ pc = "main"
    /\ ~IsUsageCall(args)
    /\ out_dir' = args[2]
    /\ pc' = "for"
    /\ UNCHANGED <<args, i, resp, data, s, fs, fs0, fs_before, requests,
                   responses, opened, written, stdout, ret, exc, textVars>>

\* main, lines 51-52: the next descriptor, download_file is called
ForNext ==
    /\ pc = "for"
    /\ i < Len(files)
    /\ i' = i + 1
    /\ fs_before' = fs
    /\ pc' = FirstStep
    /\ UNCHANGED <<args, out_dir, resp, data, s, fs, fs0, requests,
                   responses, opened, written, stdout, ret, exc, textVars>>

\* main, line 54: the list is exhausted, return 0
ReturnZero ==
    /\ pc = "for"
    /\ i = Len(files)
    /\ ret' = {0}
    /\ pc' = "returned"
    /\ UNCHANGED <<args, i, out_dir, resp, data, s, fs, fs0, fs_before, requests,
                   responses, opened, written, stdout, exc, textVars>>

\* download_file, lines 32-33: requests.get raises when no response arrives;
\* a response of any status is returned
Get ==
    /\ pc = "get"
    /\ requests' = Append(requests, get_full_path(files[i]))
    /\ \/ /\ Raise("ConnectionError")
          /\ UNCHANGED <<resp, responses>>
       \/ /\ \E r \in Responses :
                /\ resp' = r
                /\ responses' = Append(responses, r)
          /\ pc' = StepAfter("get")
          /\ UNCHANGED exc
    /\ UNCHANGED <<args, i, out_dir, data, s, fs, fs0, fs_before,
                   opened, written, stdout, ret, textVars>>

\* download_file, lines 35-36: open(path, "w+") creates or truncates the
\* file; it raises when the directory is missing or access is denied
Open ==
    /\ pc = "open"
    /\ \/ /\ dirname(out_path) \notin ExistingDirs
          /\ Raise("FileNotFoundError")
          /\ UNCHANGED <<fs, opened>>
       \/ /\ dirname(out_path) \in ExistingDirs
          /\ Raise("PermissionError")
          /\ UNCHANGED <<fs, opened>>
       \/ /\ dirname(out_path) \in ExistingDirs
          /\ fs' = [fs EXCEPT ![out_path] = File(<<>>)]
          /\ opened' = Append(opened, out_path)
          /\ pc' = StepAfter("open")
          /\ UNCHANGED exc
    /\ UNCHANGED <<args, i, out_dir, resp, data, s, fs0, fs_before, requests,
                   responses, written, stdout, ret, textVars>>

\* download_file, line 37: data = resp.content.decode(encoding="utf-8")
Decode ==
    /\ pc = "decode"
    /\ LET d == decode(resp.content)
       IN  \/ /\ d.exc # NoExc
              /\ Raise(d.exc)
              /\ UNCHANGED data
           \/ /\ d.exc = NoExc
              /\ data' = d.val
              /\ pc' = StepAfter("decode")
              /\ UNCHANGED exc
    /\ UNCHANGED <<args, i, out_dir, resp, s, fs, fs0, fs_before, requests,
                   responses, opened, written, stdout, ret, textVars>>

\* download_file, line 38: s = strip_file(data)
Strip ==
    /\ pc = "strip"
    /\ LET n == strip_file(data)
       IN  \/ /\ n.exc # NoExc
              /\ Raise(n.exc)
              /\ UNCHANGED s
           \/ /\ n.exc = NoExc
              /\ s' = n.val
              /\ pc' = StepAfter("strip")
              /\ UNCHANGED exc
    /\ UNCHANGED <<args, i, out_dir, resp, data, fs, fs0, fs_before, requests,
                   responses, opened, written, stdout, ret, textVars>>

\* (variant: the decoded text is written as received, file.write(data))
Write_Unnormalized ==
    /\ pc = "write"
    /\ fs' = [fs EXCEPT ![out_path] = File(data)]
    /\ written' = written \cup {out_path}
    /\ pc' = StepAfter("write")
    /\ UNCHANGED <<args, i, out_dir, resp, data, s, fs0, fs_before, requests,
                   responses, opened, stdout, ret, exc, textVars>>

\* download_file, line 39 and the end of the with block: the text reaches
\* the file, or the write fails (OSError) with only a part of it stored
Write ==
    /\ pc = "write"
    /\ \/ /\ fs' = [fs EXCEPT ![out_path] = File(s)]
          /\ written' = written \cup {out_path}
          /\ pc' = StepAfter("write")
          /\ UNCHANGED exc
       \/ /\ \E n \in 0..(Len(s) - 1) :
                fs' = [fs EXCEPT ![out_path] = File(SubSeq(s, 1, n))]
          /\ Raise("OSError")
          /\ UNCHANGED written
    /\ UNCHANGED <<args, i, out_dir, resp, data, s, fs0, fs_before, requests,
                   responses, opened, stdout, ret, textVars>>

Next ==
    \/ MainUsage
    \/ MainStart
    \/ ForNext
    \/ ReturnZero
    \/ Get
    \/ Open
    \/ Decode
    \/ Strip
    \/ Write

Spec == Init /\ [][Next]_vars

-----------------------------------------------------------------------------
(* Vocabulary of the properties *)

\* The three output files the specification names, inside the directory out
ExpectedPaths ==
    << <<"o","u","t","/","C","a","s","e","F","o","l","d","i","n","g",".","t","x","t">>,
       <<"o","u","t","/","U","n","i","c","o","d","e","D","a","t","a",".","t","x","t">>,
       <<"o","u","t","/","e","m","o","j","i","-","d","a","t","a",".","t","x","t">> >>

ExpectedUrls == [k \in 1..Len(files) |-> url \o files[k]]

Descriptors == 1..Len(files)

Terminated == pc \in {"returned", "raised"}

CalledWithDir(d) == Len(args) >= 2 /\ args[2] = d

\* The text received for descriptor k, and its normalization
BodyText(k) == decode(responses[k].content)

Normalized(k) == strip_file(BodyText(k).val)

OutputsAbsent(f) == \A k \in Descriptors : f[ExpectedPaths[k]] = Absent

\* The "\n"-terminated lines of a text that ends with "\n"
LinesOf(text) ==
    LET parts == split(text, "\n") IN SubSeq(parts, 1, Len(parts) - 1)

EndsWithOneNewline(text) ==
    /\ Len(text) >= 1
    /\ text[Len(text)] = "\n"
    /\ Len(text) >= 2 => text[Len(text) - 1] # "\n"

NoZeroLengthLine(text) ==
    /\ \A k \in 1..Len(LinesOf(text)) : Len(LinesOf(text)[k]) > 0
    /\ \A k \in 1..Len(splitlines(text)) : Len(splitlines(text)[k]) > 0

HasNonEmptyLine(text) ==
    \E k \in 1..Len(splitlines(text)) : Len(splitlines(text)[k]) > 0

NetworkErrors == {"ConnectionError"}

DecodeErrors == {"UnicodeDecodeError"}

FilesystemErrors == {"FileNotFoundError", "PermissionError", "OSError"}

-----------------------------------------------------------------------------
(* Properties *)

\* C1: when main is called with a valid output directory and all three
\* GETs, all three decodes and all three writes succeed, the run raises
\* nothing and ends with exit code 0; exactly the three files
\* CaseFolding.txt, UnicodeData.txt and emoji-data.txt were opened and
\* written, each holds the normalization of the body received for its own
\* descriptor, and no other file is created or modified.
C1_HappyPathWritesThreeFiles ==
    ( /\ CalledWithDir(dir_out)
      /\ Len(responses) = Len(files)
      /\ \A k \in Descriptors : BodyText(k).exc = NoExc
      /\ \A k \in Descriptors : ExpectedPaths[k] \in written )
    => /\ exc = NoExc
       /\ pc \in {"for", "returned"}
       /\ Terminated => ret = {0}
       /\ opened = ExpectedPaths
       /\ written = {ExpectedPaths[k] : k \in Descriptors}
       /\ \A k \in Descriptors :
             /\ Normalized(k).exc = NoExc
             /\ fs[ExpectedPaths[k]] = File(Normalized(k).val)
       /\ \A p \in DOMAIN fs :
             (\A k \in Descriptors : p # ExpectedPaths[k]) => fs[p] = fs0[p]

\* C1 witness: main has returned 0 after three successful downloads whose
\* first two bodies normalize to different texts, over a directory that
\* already held an older CaseFolding.txt.
C1_Witness ==
    /\ pc = "returned"
    /\ ret = {0}
    /\ \A k \in Descriptors : ExpectedPaths[k] \in written
    /\ fs0[ExpectedPaths[1]] = File(OldContent)
    /\ fs[ExpectedPaths[1]] = File(<<"a", "\n", "b", "\n">>)
    /\ fs[ExpectedPaths[2]] = File(<<"b", "\n", " ", "\n", "a", "\n">>)

\* C2: for every input text, the empty one included, strip_file returns a
\* text with no zero-length line that ends with exactly one newline.
C2_NormalizeWellFormed ==
    txt_out # NotCalled
    => /\ txt_out.exc = NoExc
       /\ NoZeroLengthLine(txt_out.val)
       /\ EndsWithOneNewline(txt_out.val)

\* C3: the descriptors are processed strictly in list order, one after the
\* other, and the first exception ends the run: it leaves main (no exit
\* code), and no GET is issued and no file opened for a later descriptor.
C3_SequentialAndFirstErrorAborts ==
    /\ \A k \in 1..Len(requests) : requests[k] = ExpectedUrls[k]
    /\ \A k \in 1..Len(opened) : opened[k] = ExpectedPaths[k]
    /\ Len(opened) <= Len(requests)
    /\ Len(requests) <= Len(opened) + 1
    /\ \A k \in 1..(Len(requests) - 1) : ExpectedPaths[k] \in written
    /\ exc # NoExc =>
          /\ pc = "raised"
          /\ ret = {}
          /\ Len(requests) <= i
          /\ Len(opened) <= i
          /\ ~ENABLED Next

\* C3 witness: the second descriptor's payload fails to decode; the third
\* descriptor is never requested.
C3_Witness ==
    /\ exc = "UnicodeDecodeError"
    /\ i = 2
    /\ Len(requests) = 2
    /\ ExpectedPaths[1] \in written

\* C4: called with no directory argument, or with -h or --help first, main
\* prints the usage message and returns 1; it issues no request and
\* creates, truncates or writes no file.
C4_UsageHasNoEffect ==
    (Len(args) < 2 \/ CalledWithDir(opt_h) \/ CalledWithDir(opt_help))
    => /\ requests = <<>>
       /\ opened = <<>>
       /\ written = {}
       /\ fs = fs0
       /\ exc = NoExc
       /\ \/ pc = "main" /\ ret = {} /\ stdout = <<>>
          \/ pc = "returned" /\ ret = {1} /\ stdout = <<usage_text>>

\* C4 witness: main(["update.py", "--help"]) has returned 1.
C4_Witness ==
    /\ args = <<prog_name, opt_help>>
    /\ pc = "returned"
    /\ ret = {1}

\* C5: a GET that completes with a non-success status is an error that
\* ends the run: its body is never written to the output file and main
\* does not return 0.
C5_NonSuccessStatusIsAnError ==
    \A k \in 1..Len(responses) :
        responses[k].status \notin 200..299
        => /\ ExpectedPaths[k] \notin written
           /\ ret # {0}

\* C6: starting from an empty output directory, when the run fails on the
\* k-th descriptor with a network, decode or filesystem error, the
\* directory holds the complete normalized output of every descriptor
\* before k and no file for descriptor k and the ones after it.
C6_FailureLeavesNoFileForFailingDescriptor ==
    ( /\ pc = "raised"
      /\ exc \in NetworkErrors \cup DecodeErrors \cup FilesystemErrors
      /\ OutputsAbsent(fs0) )
    => /\ \A k \in 1..(i - 1) : fs[ExpectedPaths[k]] = File(Normalized(k).val)
       /\ \A k \in i..Len(files) : fs[ExpectedPaths[k]] = Absent

\* C7: strip_file is idempotent: for every text x, the empty one included,
\* strip_file(strip_file(x)) is defined and equals strip_file(x).
C7_NormalizeIdempotent ==
    txt_out2 # NotCalled
    => /\ txt_out2.exc = NoExc
       /\ txt_out2 = txt_out

\* C8: in download_file the destination is opened only after decode and
\* normalize have succeeded, so a decode or normalize failure leaves the
\* destination as it was when download_file was called.
C8_OpenAfterDecodeAndNormalize ==
    /\ pc \in {"decode", "strip"} => Len(opened) < i
    /\ exc \in DecodeErrors \cup {"IndexError"}
          => fs[ExpectedPaths[i]] = fs_before[ExpectedPaths[i]]

\* C9: for every text with at least one non-empty line, strip_file returns
\* the non-zero-length lines of the input, in order and unchanged (a line
\* of spaces is kept), each followed by a single newline.
C9_KeepsNonEmptyLines ==
    (txt_out # NotCalled /\ HasNonEmptyLine(txt_in))
    => /\ txt_out.exc = NoExc
       /\ split(txt_out.val, "\n") =
             SelectSeq(splitlines(txt_in), IsNotEmptyLine) \o << <<>> >>

\* C9 witness: "a\n\n " loses its blank line and keeps its line of one space.
C9_Witness ==
    /\ txt_in = <<"a", "\n", "\n", " ">>
    /\ txt_out = Ok(<<"a", "\n", " ", "\n">>)

\* C10: when the GET itself raises, the destination of that descriptor has
\* not been opened, and every file is as it was when download_file was
\* called.
C10_GetFailureTouchesNoFile ==
    exc \in NetworkErrors
    => /\ Len(opened) = i - 1
       /\ \A k \in 1..Len(opened) : opened[k] # ExpectedPaths[i]
       /\ fs = fs_before

\* C10 witness: the GET for the second descriptor raises while a previous
\* UnicodeData.txt exists; it still holds its old content.
C10_Witness ==
    /\ exc = "ConnectionError"
    /\ i = 2
    /\ fs[ExpectedPaths[2]] = File(OldContent)

====
